---- MODULE Spec2Model ----
(***************************************************************************)
(* Cycle sort (src/src/cycle_sort.rs, cycle_impl) as a state machine.      *)
(* One step per iteration of each loop of cycle_impl, so that every        *)
(* invocation of is_less and every slot access is a separate state.        *)
(* Slots are numbered from 0 as in the source.                             *)
(***************************************************************************)
EXTENDS Integers, FiniteSets

\* Bounds of the model.
NumVals == 3
MaxLen == 4
MaxLenAny == 3
UsizeModulus == 8

Elems == 0 .. NumVals - 1

VARIABLES
    slice,      \* the caller's slice: [0..length-1 -> Elems]
    less,       \* the is_less closure handed to cycle_impl, as a relation
    sizeOfT,    \* mem::size_of::<T>()
    pc,         \* position in cycle_impl
    src,        \* outer loop index
    tmp,        \* the ManuallyDrop temporary
    dst,        \* destination index
    i,          \* index of the rank-count loop
    inLoop,     \* TRUE inside the body of `while dst != src`
    writes,     \* the write counter
    initial,    \* history: the slice as passed in
    writeCount, \* history: exchanges that wrote each slot (0, 1, 2 = more)
    lastRead    \* history: slots whose element the last step passed to is_less

vars == <<slice, less, sizeOfT, pc, src, tmp, dst, i, inLoop, writes,
          initial, writeCount, lastRead>>

length == Cardinality(DOMAIN slice)

Slices(maxLen) == UNION {[0 .. n - 1 -> Elems] : n \in 0 .. maxLen}

\* ---------------------------------------------------------------- closures

\* cycle_sort: |a, b| a.lt(b)
NaturalLess == [p \in Elems \X Elems |-> p[1] < p[2]]

\* cycle_sort_by: |a, b| compare(a, b) == Ordering::Less
ByCompare(compare) == [p \in Elems \X Elems |-> compare[p] = "Less"]

\* cycle_sort_by_key: |a, b| key(a).lt(&key(b))
ByKey(key) == [p \in Elems \X Elems |-> key[p[1]] < key[p[2]]]

\* The comparator of the cycle_sort_by example: |a, b| b.cmp(&a)
ReverseCmp ==
    [p \in Elems \X Elems |->
        IF p[2] < p[1] THEN "Less" ELSE IF p[2] = p[1] THEN "Equal" ELSE "Greater"]

\* Key functions.  Every strict weak ordering of Elems is ByKey(k) for some
\* k, and renaming the elements turns k into a non-decreasing key that starts
\* at 0 and grows in steps of 0 or 1; the inputs range over all sequences of
\* Elems, so these keys cover every strict weak ordering up to renaming.
KeyFns ==
    {k \in [Elems -> Elems] :
        /\ k[0] = 0
        /\ \A e \in Elems \ {0} : k[e] \in {k[e - 1], k[e - 1] + 1}}

\* Comparators whose "Less" outcomes are arbitrary (no consistency at all).
AnyCompare == [Elems \X Elems -> {"Less", "Greater"}]

StrictWeakOrders ==
    {NaturalLess} \cup {ByCompare(ReverseCmp)} \cup {ByKey(k) : k \in KeyFns}

\* ------------------------------------------------------------------ util.rs

\* the closure parameter `is_less: &F`
is_less(a, b) == less[<<a, b>>]

\* mutants of are_equal: no duplicate is ever recognised; an element that
\* is merely not less counts as a duplicate
AreEqualNever(a, b) == FALSE

AreEqualHalf(a, b) == ~is_less(b, a)

\* util.rs lines 4-8
are_equal(a, b) == ~is_less(a, b) /\ ~is_less(b, a)

\* util.rs lines 11-15
is_sorted(s) ==
    \A j \in DOMAIN s : (j + 1) \in DOMAIN s => ~is_less(s[j + 1], s[j])

\* ------------------------------------------------------------------ helpers

Count(s, e) == Cardinality({j \in DOMAIN s : s[j] = e})

IsPermutation(s, t) ==
    /\ DOMAIN s = DOMAIN t
    /\ \A e \in Elems : Count(s, e) = Count(t, e)

\* ------------------------------------------------------------------- Init

InitCall(orders, maxLen) ==
    /\ \/ /\ sizeOfT = 1
          /\ slice \in Slices(maxLen)
          /\ less \in orders
       \/ /\ sizeOfT = 0
          /\ slice \in {[j \in 0 .. n - 1 |-> 0] : n \in 0 .. maxLen}
          /\ less = NaturalLess
    /\ initial = slice
    /\ pc = "entry"
    /\ src = 0
    /\ tmp = 0
    /\ dst = 0
    /\ i = 0
    /\ inLoop = FALSE
    /\ writes = 0
    /\ writeCount = [j \in DOMAIN slice |-> 0]
    /\ lastRead = {}

Init == InitCall(StrictWeakOrders, MaxLen)

InitAny == InitCall({ByCompare(c) : c \in AnyCompare}, MaxLenAny)

\* ---------------------------------------------------------------- actions

\* lines 79-86: the early return and `let mut writes = 0`
NoSortNeeded == sizeOfT = 0 \/ length < 2

Enter ==
    /\ pc = "entry"
    /\ pc' = IF NoSortNeeded THEN "done" ELSE "for"
    /\ writes' = 0
    /\ src' = 0
    /\ lastRead' = {}
    /\ UNCHANGED <<slice, less, sizeOfT, tmp, dst, i, inLoop, initial, writeCount>>

\* line 88: the range of the outer loop
OuterRange == 0 .. length - 2

\* mutant of RankFirst: the rank count skips the element next to src
RankFirstOffByOne(s) == s + 2

\* lines 93, 118: the rank-count loop `for i in src + 1..length`
RankFirst(s) == s + 1

RankRange(s) == RankFirst(s) .. length - 1

\* lines 88-90: next iteration of `for src`, ptr::read of slice[src], dst = src;
\* line 133 when the range is exhausted
ForSrc ==
    /\ pc = "for"
    /\ IF src \in OuterRange
       THEN /\ tmp' = slice[src]
            /\ dst' = src
            /\ i' = RankFirst(src)
            /\ inLoop' = FALSE
            /\ pc' = "count"
       ELSE /\ pc' = "done"
            /\ UNCHANGED <<tmp, dst, i, inLoop>>
    /\ lastRead' = {}
    /\ UNCHANGED <<slice, less, sizeOfT, src, writes, initial, writeCount>>

\* lines 93-97 and 118-122: one iteration of the rank count
CountStep ==
    /\ pc = "count"
    /\ i \in RankRange(src)
    /\ dst' = IF is_less(slice[i], tmp) THEN dst + 1 ELSE dst
    /\ i' = i + 1
    /\ lastRead' = {i}
    /\ UNCHANGED <<slice, less, sizeOfT, pc, src, tmp, inLoop, writes, initial,
                   writeCount>>

\* mutant of InPlace: the in-place test is missing
InPlaceNever == FALSE

\* lines 100-102: `if dst == src { continue; }` after the first rank count;
\* inside the while loop the rank count falls through to the duplicate skip
InPlace == ~inLoop /\ dst = src

CountEnd ==
    /\ pc = "count"
    /\ i \notin RankRange(src)
    /\ IF InPlace
       THEN /\ src' = src + 1
            /\ pc' = "for"
       ELSE /\ pc' = "skip"
            /\ UNCHANGED src
    /\ lastRead' = {}
    /\ UNCHANGED <<slice, less, sizeOfT, tmp, dst, i, inLoop, writes, initial,
                   writeCount>>

\* lines 105-107 and 124-126: one test of `while are_equal(tmp, slice[dst])`;
\* slice[dst] is a checked index and panics when dst is out of range
SkipStep ==
    /\ pc = "skip"
    /\ IF dst \notin DOMAIN slice
       THEN /\ pc' = "oob"
            /\ lastRead' = {}
            /\ UNCHANGED dst
       ELSE /\ lastRead' = {dst}
            /\ IF are_equal(tmp, slice[dst])
               THEN /\ dst' = dst + 1
                    /\ UNCHANGED pc
               ELSE /\ pc' = "swap"
                    /\ UNCHANGED dst
    /\ UNCHANGED <<slice, less, sizeOfT, src, tmp, i, inLoop, writes, initial,
                   writeCount>>

\* line 110, 128: the slot mem::swap exchanges with tmp
SwapTarget == dst

\* mutant of AddOne: the write of a cycle's first placement (line 111) is
\* not counted
AddOneInLoopOnly(w) == IF inLoop THEN (w + 1) % UsizeModulus ELSE w

\* lines 111, 129: `writes += 1` on a usize, narrowed here to UsizeModulus
\* values and wrapping as in a build without overflow checks (with them the
\* overflow panics instead).  Under a strict weak ordering writes stays
\* below length and the overflow is out of reach.
AddOne(w) == (w + 1) % UsizeModulus

\* lines 110-111 and 128-129: mem::swap(tmp, slice[dst]); writes += 1
Swap ==
    /\ pc = "swap"
    /\ slice' = [slice EXCEPT ![SwapTarget] = tmp]
    /\ tmp' = slice[SwapTarget]
    /\ writes' = AddOne(writes)
    /\ pc' = "while"
    /\ writeCount' = [writeCount EXCEPT ![SwapTarget] = IF @ < 2 THEN @ + 1 ELSE @]
    /\ lastRead' = {}
    /\ UNCHANGED <<less, sizeOfT, src, dst, i, inLoop, initial>>

\* mutant of CycleClosed: the loop also stops when dst is beyond src
CycleClosedEarly == dst >= src

\* line 115: the negation of the loop condition `dst != src`
CycleClosed == dst = src

\* lines 115-116: `while dst != src { dst = src; ...`; when the cycle is
\* closed the outer loop moves on
WhileTest ==
    /\ pc = "while"
    /\ IF ~CycleClosed
       THEN /\ dst' = src
            /\ i' = RankFirst(src)
            /\ inLoop' = TRUE
            /\ pc' = "count"
            /\ UNCHANGED src
       ELSE /\ src' = src + 1
            /\ pc' = "for"
            /\ UNCHANGED <<dst, i, inLoop>>
    /\ lastRead' = {}
    /\ UNCHANGED <<slice, less, sizeOfT, tmp, writes, initial, writeCount>>

\* is_less panics at the invocation about to be made (lines 94, 105, 119,
\* 124); tmp is ManuallyDrop, so unwinding leaves the slice as it stands
Panic ==
    /\ \/ pc = "count" /\ i \in RankRange(src)
       \/ pc = "skip" /\ dst \in DOMAIN slice
    /\ pc' = "panicked"
    /\ lastRead' = {}
    /\ UNCHANGED <<slice, less, sizeOfT, src, tmp, dst, i, inLoop, writes, initial,
                   writeCount>>

Next ==
    \/ Enter
    \/ ForSrc
    \/ CountStep
    \/ CountEnd
    \/ SkipStep
    \/ Swap
    \/ WhileTest

NextPanic ==
    \/ Next
    \/ Panic

\* cycle_impl with a strict weak ordering
Spec == Init /\ [][Next]_vars

\* the same, run to completion: the call is one thread that takes its next
\* step for as long as it has one
SpecFair == Init /\ [][Next]_vars /\ WF_vars(Next)

\* cycle_impl with a strict weak ordering that may panic
SpecPanic == Init /\ [][NextPanic]_vars

\* cycle_impl with an arbitrary relation, run for as long as it runs
SpecAny == InitAny /\ [][Next]_vars /\ WF_vars(Next)

TypeOK ==
    /\ pc \in {"entry", "for", "count", "skip", "swap", "while", "done",
               "panicked", "oob"}
    /\ slice \in Slices(MaxLen)
    /\ writes \in 0 .. UsizeModulus - 1

\* ------------------------------------------------------------------ claims

Placed == {j \in DOMAIN slice : writeCount[j] > 0}

Changed == {j \in DOMAIN slice : slice[j] # initial[j]}

HasDuplicates(s) == \E j, k \in DOMAIN s : j # k /\ are_equal(s[j], s[k])

\* C1: when the sort returns, no adjacent pair of the slice is out of order:
\* ~is_less(slice[j+1], slice[j]) for every j.
C1_Sorted == pc = "done" => is_sorted(slice)

\* a sort of an unsorted slice of at least three elements has returned
C1_Witness == pc = "done" /\ length >= 3 /\ ~is_sorted(initial)

\* C2: when the sort returns, the slice holds the same multiset of elements
\* as it did when the call was made.
C2_Permutation == pc = "done" => IsPermutation(slice, initial)

\* a sort has returned whose last outer iteration closed a cycle through tmp
C2_Witness == pc = "done" /\ inLoop /\ writes >= 2 /\ slice # initial

\* C3: the write count returned equals the number of slots whose element
\* differs from the element the slot held before the call.
C3_MinimalWrites == pc = "done" => writes = Cardinality(Changed)

\* a sort of a slice with duplicates has returned after three writes
C3_Witness == pc = "done" /\ writes = 3 /\ HasDuplicates(initial)

\* C4: every call returns: the sort reaches its return statement.
C4_Terminates == <>(pc = "done")

\* a sort of a slice in which one value occurs at least twice has returned
\* after closing a cycle
C4_Witness ==
    /\ pc = "done"
    /\ writes >= 2
    /\ \E e \in Elems : Count(initial, e) >= 2

\* C5: for a slice that is already sorted, or has fewer than two elements,
\* or has a zero-size element type, the write count is 0 and every slot is
\* unchanged, throughout the call and when it returns.
C5_SortedInputNoWrites ==
    (is_sorted(initial) \/ sizeOfT = 0 \/ length < 2)
        => (writes = 0 /\ slice = initial)

\* a sort of a sorted slice of at least three elements, two of them
\* equivalent, has returned
C5_Witness ==
    /\ pc = "done"
    /\ sizeOfT = 1
    /\ length >= 3
    /\ is_sorted(initial)
    /\ HasDuplicates(initial)

\* C6: with any relation as is_less the call makes no out-of-range access,
\* returns, and leaves a permutation of the input.
C6_AnyRelation ==
    /\ [](pc # "oob")
    /\ [](pc = "done" => IsPermutation(slice, initial))
    /\ <>(pc = "done")

\* C7 as claimed: when is_less panics, the slice is a permutation of the
\* input.
C7_PanicPermutation == pc = "panicked" => IsPermutation(slice, initial)

\* C7 as amended: when is_less panics, the slice has its element count and
\* every slot occupied; it is a permutation of the input when no cycle is
\* open, and while a cycle is open slot src holds the stale copy of the
\* cycle's first element and the element in tmp is missing from the slice.
C7_PanicState ==
    pc = "panicked" =>
        /\ DOMAIN slice = DOMAIN initial
        /\ IF inLoop
           THEN /\ slice[src] = initial[src]
                /\ IsPermutation([slice EXCEPT ![src] = tmp], initial)
           ELSE IsPermutation(slice, initial)

\* is_less has panicked while a cycle was open, with an element lost
C7_Witness == pc = "panicked" /\ inLoop /\ ~IsPermutation(slice, initial)

\* C8 as claimed: an element that an exchange has placed is not passed to
\* is_less again and its slot is not written again.
C8_PlacedUntouched ==
    \A j \in Placed : j \notin lastRead /\ writeCount[j] <= 1

\* C8 as amended: a slot that an exchange has written keeps its element for
\* the rest of the call, and is_less is handed only elements of slots at or
\* after src (placed elements after src are still read by the rank counts).
C8_PlacedNotRewritten ==
    [][/\ \A j \in Placed : slice'[j] = slice[j]
       /\ \A j \in lastRead' : j >= src']_vars

\* a rank count of a later outer iteration reads a placed element
C8_Witness == pc = "count" /\ src > 0 /\ lastRead \cap Placed # {}

\* C9: each slot is the destination of at most one exchange in a call.
C9_WrittenOnce == \A j \in DOMAIN slice : writeCount[j] <= 1

\* a sort has returned in which every slot was written
C9_Witness == pc = "done" /\ length >= 3 /\ Placed = DOMAIN slice

\* C10: from the rank count to the exchange, in a cycle's first placement
\* and in every later one, src <= dst <= length-1, and no slice[dst] is out
\* of range.
C10_DstInRange ==
    /\ pc \in {"count", "skip", "swap", "while"} =>
          (src <= dst /\ dst <= length - 1)
    /\ pc # "oob"

\* inside a cycle, with tmp equivalent to the stale element of slot src, the
\* duplicate skip has just advanced dst to the last slot
C10_Witness ==
    /\ pc = "skip"
    /\ inLoop
    /\ are_equal(tmp, slice[src])
    /\ dst = length - 1
    /\ lastRead = {dst - 1}
====
